---- MODULE Spec2Model ----
(***************************************************************************)
(* A model of xlsx_utilities: the mapping between Go records and tabular   *)
(* sheet data (FromStruct / ToStruct), the tabular container (ExcelData),  *)
(* the sheet file boundary (ToFile / FromExcel) and the type registry.     *)
(*                                                                         *)
(* Representation.                                                         *)
(*  - A text (Go string) is a sequence of tokens.  Digits, ".", "-" and    *)
(*    " " are tokens of their own, so that number formatting, number       *)
(*    parsing, header joining and header splitting are computed, token by  *)
(*    token, the way the code computes them character by character.  A     *)
(*    field name or a word is one token.                                   *)
(*  - A reflect.Type is a record: scalars [kind, name], pointers and       *)
(*    slices [kind, elem], structs [kind, name, fields].                   *)
(*  - A Go value is a record tagged by kind; a pointer holds a sequence of *)
(*    zero (nil) or one (pointee) values, a slice its elements, a struct   *)
(*    its field values in declaration order.                               *)
(*  - float64 values are counted in tenths (35 is 3.5).                    *)
(***************************************************************************)
EXTENDS Integers, Sequences, FiniteSets, TLC

VARIABLES
    TypeConverters,   \* registry: type name -> converter id, or "none"
    TypeParsers,      \* registry: type name -> parser id, or "none"
    T,                \* the type parameter of the live container (a name)
    ed,               \* the live container: [Headers, Rows]
    data,             \* the records last handed to FromStruct
    file,             \* the saved sheet: rows of written cells
    result,           \* the last ImportResult: [Data, Errors]
    op,               \* the last operation performed
    arg,              \* the last call and what it was handed
    err               \* the error the last operation returned ("" is nil)

vars == <<TypeConverters, TypeParsers, T, ed, data, file, result, op, arg, err>>

-----------------------------------------------------------------------------
(* Bounds of the model *)

\* most records handed to one FromStruct call
MaxRecords == 2
\* most rows appended by AddRow to one container
MaxRows == 2

-----------------------------------------------------------------------------
(* Texts *)

Space == " "

DigitChar == <<"0", "1", "2", "3", "4", "5", "6", "7", "8", "9">>

Digits == {DigitChar[i] : i \in 1..10}

DigitVal(c) == (CHOOSE i \in 1..10 : DigitChar[i] = c) - 1

RECURSIVE FormatNat(_)
FormatNat(n) ==
    IF n < 10 THEN <<DigitChar[n + 1]>>
    ELSE FormatNat(n \div 10) \o <<DigitChar[(n % 10) + 1]>>

\* fmt.Sprintf("%d", n)
FormatInt(n) == IF n < 0 THEN <<"-">> \o FormatNat(0 - n) ELSE FormatNat(n)

\* fmt.Sprintf("%v", f) of a float64 counted in tenths: shortest form
FormatFloat(tenths) ==
    LET a == IF tenths < 0 THEN 0 - tenths ELSE tenths
        sign == IF tenths < 0 THEN <<"-">> ELSE <<>>
    IN  IF a % 10 = 0 THEN sign \o FormatNat(a \div 10)
        ELSE sign \o FormatNat(a \div 10) \o <<".">> \o <<DigitChar[(a % 10) + 1]>>

AllDigits(s) == \A i \in 1..Len(s) : s[i] \in Digits

RECURSIVE NatOf(_)
NatOf(s) == IF Len(s) = 0 THEN 0
            ELSE 10 * NatOf(SubSeq(s, 1, Len(s) - 1)) + DigitVal(s[Len(s)])

Unsigned(s) == IF Len(s) > 0 /\ s[1] \in {"-", "+"} THEN Tail(s) ELSE s

IsNegative(s) == Len(s) > 0 /\ s[1] = "-"

\* strconv.ParseInt(s, 10, 64) and strconv.Atoi(s): an optional sign and at
\* least one decimal digit (the values of the model stay far from 2^63)
ParseInt(s) ==
    LET u == Unsigned(s)
    IN  IF Len(u) > 0 /\ AllDigits(u)
        THEN [ok |-> TRUE, n |-> IF IsNegative(s) THEN 0 - NatOf(u) ELSE NatOf(u)]
        ELSE [ok |-> FALSE, n |-> 0]

\* strconv.ParseUint(s, 10, 64): digits only, no sign
ParseUint(s) ==
    IF Len(s) > 0 /\ AllDigits(s) THEN [ok |-> TRUE, n |-> NatOf(s)]
    ELSE [ok |-> FALSE, n |-> 0]

DotAt(s) == IF \E i \in 1..Len(s) : s[i] = "."
            THEN CHOOSE i \in 1..Len(s) : s[i] = "." /\ \A j \in 1..(i - 1) : s[j] # "."
            ELSE 0

\* strconv.ParseFloat(s, 64) on the decimal grammar: sign, digits, an optional
\* point and fraction, at least one digit in all; the value in tenths
ParseFloat(s) ==
    LET u == Unsigned(s)
        d == DotAt(u)
        whole == IF d = 0 THEN u ELSE SubSeq(u, 1, d - 1)
        frac == IF d = 0 THEN <<>> ELSE SubSeq(u, d + 1, Len(u))
        mag == 10 * NatOf(whole) + (IF Len(frac) > 0 THEN DigitVal(frac[1]) ELSE 0)
    IN  IF AllDigits(whole) /\ AllDigits(frac) /\ Len(whole) + Len(frac) > 0
        THEN [ok |-> TRUE, tenths |-> IF IsNegative(s) THEN 0 - mag ELSE mag]
        ELSE [ok |-> FALSE, tenths |-> 0]

TrueWords == {<<"1">>, <<"t">>, <<"T">>, <<"TRUE">>, <<"true">>, <<"True">>}

FalseWords == {<<"0">>, <<"f">>, <<"F">>, <<"FALSE">>, <<"false">>, <<"False">>}

\* strconv.ParseBool(s)
ParseBool(s) ==
    IF s \in TrueWords THEN [ok |-> TRUE, b |-> TRUE]
    ELSE IF s \in FalseWords THEN [ok |-> TRUE, b |-> FALSE]
    ELSE [ok |-> FALSE, b |-> FALSE]

\* strings.Split(s, " "): the segments between the separators, empty segments
\* included; the result is never empty
RECURSIVE Split(_)
Split(s) ==
    IF \A i \in 1..Len(s) : s[i] # Space THEN <<s>>
    ELSE LET k == CHOOSE i \in 1..Len(s) : s[i] = Space /\ \A j \in 1..(i - 1) : s[j] # Space
         IN  <<SubSeq(s, 1, k - 1)>> \o Split(SubSeq(s, k + 1, Len(s)))

-----------------------------------------------------------------------------
(* Types (reflect.Type) *)

StringT == [kind |-> "string", name |-> "string"]
IntT == [kind |-> "int", name |-> "int"]
UintT == [kind |-> "uint", name |-> "uint"]
Float64T == [kind |-> "float", name |-> "float64"]
BoolT == [kind |-> "bool", name |-> "bool"]
TimeT == [kind |-> "struct", name |-> "time.Time", fields |-> <<>>]
CustomIDT == [kind |-> "int", name |-> "customID"]

PtrTo(t) == [kind |-> "ptr", elem |-> t]
SliceOf(t) == [kind |-> "slice", elem |-> t]
StructOf(n, fs) == [kind |-> "struct", name |-> n, fields |-> fs]
Fld(n, t) == [name |-> n, exported |-> TRUE, type |-> t]
Unexported(n, t) == [name |-> n, exported |-> FALSE, type |-> t]

IsTime(t) == t.kind = "struct" /\ t.name = "time.Time"

-----------------------------------------------------------------------------
(* Values (reflect.Value / interface{}) *)

StrV(s) == [kind |-> "string", s |-> s]
IntV(n) == [kind |-> "int", n |-> n]
UintV(n) == [kind |-> "uint", n |-> n]
FloatV(x) == [kind |-> "float", tenths |-> x]
BoolV(b) == [kind |-> "bool", b |-> b]
TimeV(sec, nsec) == [kind |-> "time", sec |-> sec, nsec |-> nsec]
CustomV(n) == [kind |-> "customID", n |-> n]
NilV == [kind |-> "nil"]
PtrV(pointee) == [kind |-> "ptr", elem |-> pointee]
NilPtr == PtrV(<<>>)
Ref(v) == PtrV(<<v>>)
SliceV(es) == [kind |-> "slice", elems |-> es]
StructV(fs) == [kind |-> "struct", fields |-> fs]

IsNilPtr(v) == v.elem = <<>>
Deref(v) == v.elem[1]

\* reflect.Zero(t) / reflect.New(t).Elem()
RECURSIVE Zero(_)
Zero(t) ==
    CASE t.kind = "string" -> StrV(<<>>)
      [] t.kind = "int" -> IF t.name = "customID" THEN CustomV(0) ELSE IntV(0)
      [] t.kind = "uint" -> UintV(0)
      [] t.kind = "float" -> FloatV(0)
      [] t.kind = "bool" -> BoolV(FALSE)
      [] t.kind = "ptr" -> NilPtr
      [] t.kind = "slice" -> SliceV(<<>>)
      [] t.kind = "struct" ->
            IF IsTime(t) THEN TimeV(0, 0)
            ELSE StructV([i \in 1..Len(t.fields) |-> Zero(t.fields[i].type)])

\* time.Time.Format(time.RFC3339): whole seconds, the fraction is not written
FormatRFC3339(v) == <<"T">> \o FormatNat(v.sec) \o <<"Z">>

\* time.Parse(time.RFC3339, s); a fraction of a second is accepted when present
ParseRFC3339(s) ==
    LET body == SubSeq(s, 2, Len(s) - 1)
        d == DotAt(body)
        whole == IF d = 0 THEN body ELSE SubSeq(body, 1, d - 1)
        frac == IF d = 0 THEN <<"0">> ELSE SubSeq(body, d + 1, Len(body))
    IN  IF /\ Len(s) >= 3
           /\ s[1] = "T"
           /\ s[Len(s)] = "Z"
           /\ Len(whole) > 0
           /\ AllDigits(whole)
           /\ Len(frac) > 0
           /\ AllDigits(frac)
        THEN [ok |-> TRUE, v |-> TimeV(NatOf(whole), NatOf(frac))]
        ELSE [ok |-> FALSE, v |-> TimeV(0, 0)]

Pad5(ds) == IF Len(ds) >= 5 THEN ds ELSE SubSeq(<<"0", "0", "0", "0", "0">>, 1, 5 - Len(ds)) \o ds

\* customID.String(): fmt.Sprintf("ID-%05d", int(c))
IDString(n) == <<"ID-">> \o Pad5(FormatNat(n))

\* fmt.Sscanf(s, "ID-%05d", &id): the literal, then a number of at most five
\* digits; input after the number is not looked at
IDScan(s) ==
    LET rest == Tail(s)
        run == CHOOSE k \in 0..Len(rest) :
                  /\ \A j \in 1..k : rest[j] \in Digits
                  /\ (k = Len(rest) \/ rest[k + 1] \notin Digits)
        w == IF run > 5 THEN 5 ELSE run
    IN  IF Len(s) >= 2 /\ s[1] = "ID-" /\ w > 0
        THEN [ok |-> TRUE, v |-> CustomV(NatOf(SubSeq(rest, 1, w)))]
        ELSE [ok |-> FALSE, v |-> CustomV(0)]

\* fmt.Sprintf("%v", value)
FormatV(v) ==
    CASE v.kind = "string" -> v.s
      [] v.kind = "int" -> FormatInt(v.n)
      [] v.kind = "uint" -> FormatNat(v.n)
      [] v.kind = "float" -> FormatFloat(v.tenths)
      [] v.kind = "bool" -> IF v.b THEN <<"true">> ELSE <<"false">>
      [] v.kind = "time" -> <<"T">> \o FormatNat(v.sec) \o <<Space, "+0000", Space, "UTC">>
      [] v.kind = "customID" -> IDString(v.n)
      [] v.kind = "nil" -> <<"<nil>">>
      [] v.kind = "ptr" -> <<"0xc000">>
      [] v.kind = "slice" -> <<"[">> \o <<"]">>
      [] v.kind = "struct" -> <<"{">> \o <<"}">>

-----------------------------------------------------------------------------
(* The type registry *)

RegNames == {"time.Time", "customID"}

ConverterIds == {"rfc3339", "idString", "idChecked"}
ParserIds == {"rfc3339", "idParse"}

Registrable(t) == t.kind \notin {"ptr", "slice"} /\ t.name \in RegNames

\* converter, ok := TypeConverters[t]
HasConverter(t) == Registrable(t) /\ TypeConverters[t.name] # "none"

\* the registry of parsers never consulted
HasParser_never(t) == FALSE

\* parser, ok := TypeParsers[t]
HasParser(t) == Registrable(t) /\ TypeParsers[t.name] # "none"

\* the registered converters: each asserts the dynamic type of its argument
ApplyConverter(id, v) ==
    CASE id = "rfc3339" ->
            IF v.kind = "time" THEN [ok |-> TRUE, text |-> FormatRFC3339(v)]
            ELSE [ok |-> FALSE, text |-> <<>>]
      [] id = "idString" ->
            IF v.kind = "customID" THEN [ok |-> TRUE, text |-> IDString(v.n)]
            ELSE [ok |-> FALSE, text |-> <<>>]
      \* a converter that refuses some values: identifiers of more than one digit
      [] id = "idChecked" ->
            IF v.kind = "customID" /\ Len(FormatNat(v.n)) = 1
            THEN [ok |-> TRUE, text |-> IDString(v.n)]
            ELSE [ok |-> FALSE, text |-> <<>>]

\* the registered parsers
ApplyParser(id, s) ==
    CASE id = "rfc3339" -> ParseRFC3339(s)
      [] id = "idParse" -> IDScan(s)

-----------------------------------------------------------------------------
(* Header derivation *)

RECURSIVE getNestedHeaders(_, _), fieldHeaders(_, _, _)

\* the separator forgotten
JoinName_noSeparator(prefix, n) == prefix \o <<n>>

JoinName(prefix, n) == IF prefix # <<>> THEN prefix \o <<Space>> \o <<n>> ELSE <<n>>

getNestedHeaders(t0, prefix) ==
    LET t == IF t0.kind = "ptr" THEN t0.elem ELSE t0
    IN  IF HasConverter(t) THEN <<prefix>>
        ELSE IF t.kind # "struct" THEN <<prefix>>
        ELSE fieldHeaders(t, prefix, 1)

\* the unexported fields given a header like the others
fieldHeaders_withUnexported(t, prefix, i) ==
    IF i > Len(t.fields) THEN <<>>
    ELSE LET field == t.fields[i]
             fieldName == JoinName(prefix, field.name)
             fieldType == IF field.type.kind = "ptr" THEN field.type.elem ELSE field.type
             sliceElemType == IF fieldType.elem.kind = "ptr" THEN fieldType.elem.elem
                              ELSE fieldType.elem
             here == CASE fieldType.kind = "struct" ->
                             IF IsTime(fieldType) THEN <<fieldName>>
                             ELSE getNestedHeaders(fieldType, fieldName)
                       [] fieldType.kind = "slice" ->
                             getNestedHeaders(sliceElemType, fieldName)
                       [] OTHER -> <<fieldName>>
         IN  here \o fieldHeaders(t, prefix, i + 1)

\* the loop over t's fields, from field i on
fieldHeaders(t, prefix, i) ==
    IF i > Len(t.fields) THEN <<>>
    ELSE LET field == t.fields[i]
             fieldName == JoinName(prefix, field.name)
             fieldType == IF field.type.kind = "ptr" THEN field.type.elem ELSE field.type
             sliceElemType == IF fieldType.elem.kind = "ptr" THEN fieldType.elem.elem
                              ELSE fieldType.elem
             here == IF ~field.exported THEN <<>>
                     ELSE CASE fieldType.kind = "struct" ->
                                  IF IsTime(fieldType) THEN <<fieldName>>
                                  ELSE getNestedHeaders(fieldType, fieldName)
                            [] fieldType.kind = "slice" ->
                                  getNestedHeaders(sliceElemType, fieldName)
                            [] OTHER -> <<fieldName>>
         IN  here \o fieldHeaders(t, prefix, i + 1)

getStructHeaders(t) == getNestedHeaders(t, <<>>)

-----------------------------------------------------------------------------
(* Value flattening *)

Res(vals) == [err |-> "", vals |-> vals]
Fail(e) == [err |-> e, vals |-> <<>>]

\* the value put in the row as it is, the converter not called
Convert_raw(t, v) == Res(<<v>>)

Convert(t, v) ==
    LET c == ApplyConverter(TypeConverters[t.name], v)
    IN  IF c.ok THEN Res(<<StrV(c.text)>>) ELSE Fail("error converting custom type")

RECURSIVE getNestedValues(_, _), fieldValues(_, _, _), getFirstSliceValue(_, _)

\* the earlier form of the function (value.go 90-119): an empty text in place
\* of every value of the first element
getFirstSliceValue_padded(t, slice) ==
    IF Len(slice.elems) = 0 THEN Res(<<StrV(<<>>)>>)
    ELSE LET firstElem == slice.elems[1]
             isPtr == t.elem.kind = "ptr"
         IN  IF isPtr /\ IsNilPtr(firstElem) THEN Res(<<StrV(<<>>)>>)
             ELSE LET et == IF isPtr THEN t.elem.elem ELSE t.elem
                      first == IF isPtr THEN Deref(firstElem) ELSE firstElem
                      flat == getNestedValues(et, first)
                  IN  IF et.kind # "struct" THEN Res(<<StrV(<<>>)>>)
                      ELSE IF flat.err # "" THEN flat
                      ELSE Res([i \in 1..Len(flat.vals) |-> StrV(<<>>)])

getFirstSliceValue(t, slice) ==
    IF Len(slice.elems) = 0 THEN Res(<<NilV>>)
    ELSE LET first == slice.elems[1]
             isPtr == t.elem.kind = "ptr"
         IN  IF isPtr /\ IsNilPtr(first) THEN Res(<<NilV>>)
             ELSE LET et == IF isPtr THEN t.elem.elem ELSE t.elem
                      firstElem == IF isPtr THEN Deref(first) ELSE first
                  IN  IF et.kind = "struct" THEN getNestedValues(et, firstElem)
                      ELSE Res(<<firstElem>>)

getNestedValues(t0, v0) ==
    IF t0.kind = "ptr" /\ IsNilPtr(v0) THEN Res(<<NilV>>)
    ELSE LET t == IF t0.kind = "ptr" THEN t0.elem ELSE t0
             v == IF t0.kind = "ptr" THEN Deref(v0) ELSE v0
         IN  IF HasConverter(t) THEN Convert(t, v)
             ELSE IF t.kind # "struct"
                  THEN IF t.kind = "slice" THEN getFirstSliceValue(t, v) ELSE Res(<<v>>)
                  ELSE fieldValues(t, v, 1)

\* the loop over v's fields, from field i on
fieldValues(t, v, i) ==
    IF i > Len(t.fields) THEN Res(<<>>)
    ELSE LET ft == t.fields[i].type
             field == v.fields[i]
             here == IF ~t.fields[i].exported THEN Res(<<>>)
                     ELSE IF HasConverter(ft) THEN Convert(ft, field)
                     ELSE CASE ft.kind = "ptr" ->
                                  IF IsNilPtr(field) THEN Res(<<NilV>>)
                                  ELSE getNestedValues(ft.elem, Deref(field))
                            [] ft.kind = "struct" ->
                                  IF IsTime(ft) THEN Res(<<field>>)
                                  ELSE getNestedValues(ft, field)
                            [] ft.kind = "slice" -> getFirstSliceValue(ft, field)
                            [] OTHER -> Res(<<field>>)
             rest == IF here.err # "" THEN here ELSE fieldValues(t, v, i + 1)
         IN  IF here.err # "" THEN here
             ELSE IF rest.err # "" THEN rest
             ELSE Res(here.vals \o rest.vals)

getStructValues(t, v) == getNestedValues(t, v)

-----------------------------------------------------------------------------
(* Field setting *)

Set(v) == [err |-> "", v |-> v]
Keep(e, v) == [err |-> e, v |-> v]

\* an unknown name taken for the first field
FieldIndex_firstField(t, seg) ==
    IF \E i \in 1..Len(t.fields) : <<t.fields[i].name>> = seg
    THEN CHOOSE i \in 1..Len(t.fields) : <<t.fields[i].name>> = seg
    ELSE 1

\* v.FieldByName(name): the index of the field, 0 when !f.IsValid()
FieldIndex(t, seg) ==
    IF \E i \in 1..Len(t.fields) : <<t.fields[i].name>> = seg
    THEN CHOOSE i \in 1..Len(t.fields) : <<t.fields[i].name>> = seg
    ELSE 0

\* the parsed value never stored in the field
Parsed_notStored(t, old, raw) ==
    LET p == ApplyParser(TypeParsers[t.name], FormatV(raw))
    IN  IF p.ok THEN Set(old) ELSE Keep("error parsing custom type", old)

\* the value a parser's result leaves in the field, or the parser's failure
Parsed(t, old, raw) ==
    LET p == ApplyParser(TypeParsers[t.name], FormatV(raw))
    IN  IF p.ok THEN Set(p.v) ELSE Keep("error parsing custom type", old)

RECURSIVE setField(_, _, _, _), setSliceField(_, _, _), setElems(_, _, _)

\* the loop of setSliceField over the elements of the raw slice, from i on
setElems(et, raws, i) ==
    IF i > Len(raws) THEN [err |-> "", vs |-> <<>>]
    ELSE LET one == setField(et, Zero(et), TRUE, raws[i])
             rest == setElems(et, raws, i + 1)
         IN  IF one.err # "" THEN [err |-> one.err, vs |-> <<>>]
             ELSE IF rest.err # "" THEN rest
             ELSE [err |-> "", vs |-> <<one.v>> \o rest.vs]

setSliceField(ft, field, value) ==
    IF value.kind # "slice" THEN Keep("expected slice", field)
    ELSE LET r == setElems(ft.elem, value.elems, 1)
         IN  IF r.err # "" THEN Keep(r.err, field) ELSE Set(SliceV(r.vs))

\* a string field that takes the text of any raw value
setField_lenientString(ft, field, canSet, value) ==
    IF ~canSet THEN Keep("cannot set field", field)
    ELSE IF ft.kind = "ptr"
    THEN LET inner == setField(ft.elem,
                               IF IsNilPtr(field) THEN Zero(ft.elem) ELSE Deref(field),
                               TRUE, value)
         IN  [err |-> inner.err, v |-> Ref(inner.v)]
    ELSE IF HasParser(ft) THEN Parsed(ft, field, value)
    ELSE CASE ft.kind = "string" ->
                 Set(StrV(FormatV(value)))
           [] ft.kind = "int" ->
                 LET p == ParseInt(FormatV(value))
                 IN  IF ~p.ok THEN Keep("strconv.ParseInt", field)
                     ELSE IF ft.name = "customID" THEN Set(CustomV(p.n))
                     ELSE Set(IntV(p.n))
           [] ft.kind = "uint" ->
                 LET p == ParseUint(FormatV(value))
                 IN  IF p.ok THEN Set(UintV(p.n)) ELSE Keep("strconv.ParseUint", field)
           [] ft.kind = "float" ->
                 LET p == ParseFloat(FormatV(value))
                 IN  IF p.ok THEN Set(FloatV(p.tenths)) ELSE Keep("strconv.ParseFloat", field)
           [] ft.kind = "bool" ->
                 LET p == ParseBool(FormatV(value))
                 IN  IF p.ok THEN Set(BoolV(p.b)) ELSE Keep("strconv.ParseBool", field)
           [] ft.kind = "struct" ->
                 IF IsTime(ft)
                 THEN LET p == ParseRFC3339(FormatV(value))
                      IN  IF p.ok THEN Set(p.v) ELSE Keep("parsing time", field)
                 ELSE Keep("unsupported struct type", field)
           [] ft.kind = "slice" -> setSliceField(ft, field, value)
           [] OTHER -> Keep("unsupported type", field)

setField(ft, field, canSet, value) ==
    IF ~canSet THEN Keep("cannot set field", field)
    ELSE IF ft.kind = "ptr"
    THEN LET inner == setField(ft.elem,
                               IF IsNilPtr(field) THEN Zero(ft.elem) ELSE Deref(field),
                               TRUE, value)
         IN  [err |-> inner.err, v |-> Ref(inner.v)]
    ELSE IF HasParser(ft) THEN Parsed(ft, field, value)
    ELSE CASE ft.kind = "string" ->
                 IF value.kind = "string" THEN Set(StrV(value.s))
                 ELSE Keep("value is not a string", field)
           [] ft.kind = "int" ->
                 LET p == ParseInt(FormatV(value))
                 IN  IF ~p.ok THEN Keep("strconv.ParseInt", field)
                     ELSE IF ft.name = "customID" THEN Set(CustomV(p.n))
                     ELSE Set(IntV(p.n))
           [] ft.kind = "uint" ->
                 LET p == ParseUint(FormatV(value))
                 IN  IF p.ok THEN Set(UintV(p.n)) ELSE Keep("strconv.ParseUint", field)
           [] ft.kind = "float" ->
                 LET p == ParseFloat(FormatV(value))
                 IN  IF p.ok THEN Set(FloatV(p.tenths)) ELSE Keep("strconv.ParseFloat", field)
           [] ft.kind = "bool" ->
                 LET p == ParseBool(FormatV(value))
                 IN  IF p.ok THEN Set(BoolV(p.b)) ELSE Keep("strconv.ParseBool", field)
           [] ft.kind = "struct" ->
                 IF IsTime(ft)
                 THEN LET p == ParseRFC3339(FormatV(value))
                      IN  IF p.ok THEN Set(p.v) ELSE Keep("parsing time", field)
                 ELSE Keep("unsupported struct type", field)
           [] ft.kind = "slice" -> setSliceField(ft, field, value)
           [] OTHER -> Keep("unsupported type", field)

RECURSIVE walkPath(_, _, _, _)

\* the loop of setNestedField from one path segment on: v0 (of type t0) is the
\* value the loop stands at, fields the segments still to walk; the result is
\* the error and v0 as the walk leaves it
walkPath(t0, v0, fields, value) ==
    LET isPtr == t0.kind = "ptr"
        t == IF isPtr THEN t0.elem ELSE t0
        v == IF ~isPtr THEN v0 ELSE IF IsNilPtr(v0) THEN Zero(t0.elem) ELSE Deref(v0)
        back(x) == IF isPtr THEN Ref(x) ELSE x
    IN  IF t.kind # "struct" THEN Keep("not a struct", back(v))
        ELSE LET idx == FieldIndex(t, fields[1])
             IN  IF idx = 0 THEN Keep("no such field", back(v))
                 ELSE LET ft == t.fields[idx].type
                          f == v.fields[idx]
                          r == IF Len(fields) = 1
                               THEN IF HasParser(ft) THEN Parsed(ft, f, value)
                                    ELSE setField(ft, f, t.fields[idx].exported, value)
                               ELSE IF ft.kind = "ptr"
                               THEN LET in == walkPath(ft.elem,
                                                 IF IsNilPtr(f) THEN Zero(ft.elem) ELSE Deref(f),
                                                 Tail(fields), value)
                                    IN  [err |-> in.err, v |-> Ref(in.v)]
                               ELSE IF ft.kind = "slice"
                               THEN LET in == walkPath(ft.elem, Zero(ft.elem),
                                                       Tail(fields), value)
                                    IN  [err |-> in.err, v |-> SliceV(Append(f.elems, in.v))]
                               ELSE walkPath(ft, f, Tail(fields), value)
                      IN  [err |-> r.err,
                           v |-> back([v EXCEPT !.fields = [@ EXCEPT ![idx] = r.v]])]

setNestedField(t, v, fieldPath, value) == walkPath(t, v, Split(fieldPath), value)

-----------------------------------------------------------------------------
(* The record types of the model, after the record types of the tests *)

\* a flat record
personT ==
    StructOf("person", <<Fld("Name", StringT), Fld("Age", IntT),
                         Fld("Height", Float64T), Fld("IsActive", BoolT)>>)

addressT == StructOf("address", <<Fld("Street", StringT), Fld("City", StringT)>>)

\* nested struct, date/time, custom type, unexported field
userT ==
    StructOf("user", <<Fld("Name", StringT), Fld("Address", addressT),
                       Fld("BirthDate", TimeT), Fld("ID", CustomIDT),
                       Unexported("id", IntT)>>)

AddressT == StructOf("Address", <<Fld("Street", PtrTo(StringT)), Fld("City", StringT)>>)

\* pointer fields and a pointer to a nested struct
ContactInfoT ==
    StructOf("ContactInfo", <<Fld("Email", PtrTo(StringT)), Fld("Phone", StringT),
                              Fld("Address", PtrTo(AddressT))>>)

ContactT == StructOf("Contact", <<Fld("Email", StringT), Fld("Phone", StringT)>>)

\* a collection of structs
PersonT == StructOf("Person", <<Fld("Name", StringT), Fld("Contacts", SliceOf(ContactT))>>)

\* pointer fields, a pointer to a slice, a collection of pointers to structs
ComplexStructT ==
    StructOf("ComplexStruct", <<Fld("ID", PtrTo(IntT)), Fld("Tags", PtrTo(SliceOf(StringT))),
                                Fld("ContactInfos", SliceOf(PtrTo(ContactT)))>>)

\* ComplexStruct's collection with its own element type: two levels of nesting
ContactInfosT ==
    StructOf("ComplexStruct", <<Fld("Name", PtrTo(StringT)),
                                Fld("ContactInfos", SliceOf(PtrTo(ContactInfoT)))>>)

\* ComplexStruct's pointer to a date/time
BirthDateT ==
    StructOf("ComplexStruct", <<Fld("Name", StringT), Fld("BirthDate", PtrTo(TimeT))>>)

\* a field of a kind setField has no case of its own for: a byte sequence
ByteT == [kind |-> "uint", name |-> "uint8"]
UnsupportedPersonT ==
    StructOf("UnsupportedPerson", <<Fld("Name", StringT), Fld("Data", SliceOf(ByteT))>>)

TypeNames == {"person", "user", "ContactInfo", "*Person", "*ComplexStruct", "BirthDate"}

\* the reflect.Type of the type parameter
TypeOf(n) ==
    CASE n = "person" -> personT
      [] n = "user" -> userT
      [] n = "ContactInfo" -> ContactInfoT
      [] n = "*Person" -> PtrTo(PersonT)
      [] n = "*ComplexStruct" -> PtrTo(ComplexStructT)
      [] n = "BirthDate" -> BirthDateT
      [] n = "UnsupportedPerson" -> UnsupportedPersonT

\* a word: one token, which reads as no number and no boolean
Word(w) == StrV(<<w>>)

person(n, a, h, b) == StructV(<<StrV(n), IntV(a), FloatV(h), BoolV(b)>>)

user(n, street, sec, id) ==
    StructV(<<Word(n), StructV(<<Word(street), Word("York")>>), TimeV(sec, 0),
              CustomV(id), IntV(id)>>)

Contact(e, p) == StructV(<<Word(e), Word(p)>>)

\* the records FromStruct is handed, by type
Instances(n) ==
    CASE n = "person" ->
            {person(<<"Alice">>, 30, 1655, TRUE), person(<<"Bob">>, 25, 1800, FALSE),
             person(<<"4", "2">>, 0, 5, TRUE), person(<<>>, 0 - 7, 0, FALSE)}
      [] n = "user" ->
            {user("Alice", "Main", 90, 1), user("Bob", "Elm", 95, 42)}
      [] n = "BirthDate" ->
            {StructV(<<Word("Alice"), Ref(TimeV(90, 0))>>),
             StructV(<<Word("Bob"), NilPtr>>)}
      [] n = "ContactInfo" ->
            {StructV(<<Ref(Word("a@x")), Word("123-4567"),
                       Ref(StructV(<<Ref(Word("Main")), Word("York")>>))>>),
             StructV(<<NilPtr, Word("555-1234"),
                       Ref(StructV(<<NilPtr, StrV(<<>>)>>))>>),
             StructV(<<Ref(Word("b@x")), Word("987-6543"), NilPtr>>)}
      [] n = "*Person" ->
            {Ref(StructV(<<Word("Alice"), SliceV(<<Contact("a@x", "123-4567")>>)>>)),
             Ref(StructV(<<Word("Bob"), SliceV(<<Contact("b@x", "987-6543"), Contact("w@x", "555-1234")>>)>>)),
             Ref(StructV(<<Word("Carol"), SliceV(<<>>)>>)),
             NilPtr}
      [] n = "*ComplexStruct" ->
            {Ref(StructV(<<Ref(IntV(1)), Ref(SliceV(<<Word("tag1"), Word("tag2")>>)),
                           SliceV(<<Ref(Contact("a@x", "123-4567")), Ref(Contact("w@x", "098-7654"))>>)>>)),
             Ref(StructV(<<Ref(IntV(2)), Ref(SliceV(<<Word("tag3")>>)),
                           SliceV(<<Ref(Contact("b@x", "555-1234"))>>)>>)),
             Ref(StructV(<<NilPtr, NilPtr, SliceV(<<NilPtr>>)>>))}

RECURSIVE SeqsUpTo(_, _)
\* the sequences over S of length at most n
SeqsUpTo(S, n) ==
    IF n = 0 THEN {<<>>}
    ELSE LET shorter == SeqsUpTo(S, n - 1)
         IN  shorter \cup {Append(q, x) : q \in {r \in shorter : Len(r) = n - 1}, x \in S}

-----------------------------------------------------------------------------
(* The tabular container *)

NoData == [live |-> FALSE, Headers |-> <<>>, Rows |-> <<>>]

NewExcelData(headers) == [live |-> TRUE, Headers |-> headers, Rows |-> <<>>]

\* the row appended whatever its length
AddRow_appendsAnyway(e, row) ==
    [err |-> IF Len(row) # Len(e.Headers) THEN "row length does not match headers length"
             ELSE "",
     ed |-> [e EXCEPT !.Rows = Append(@, row)]]

\* ed.AddRow(row): the error and the container as the call leaves it
AddRow(e, row) ==
    IF Len(row) # Len(e.Headers)
    THEN [err |-> "row length does not match headers length", ed |-> e]
    ELSE [err |-> "", ed |-> [e EXCEPT !.Rows = Append(@, row)]]

RECURSIVE fromStructRows(_, _, _, _)
\* a record that does not flatten is left out and the export goes on
fromStructRows_skipsFailed(t, e, items, i) ==
    IF i > Len(items) THEN [err |-> "", ed |-> e]
    ELSE LET row == getStructValues(t, items[i])
         IN  IF row.err # "" THEN fromStructRows(t, e, items, i + 1)
             ELSE fromStructRows(t, AddRow(e, row.vals).ed, items, i + 1)

\* the loop of FromStruct over data, from item i on
fromStructRows(t, e, items, i) ==
    IF i > Len(items) THEN [err |-> "", ed |-> e]
    ELSE LET row == getStructValues(t, items[i])
         IN  IF row.err # "" THEN [err |-> row.err, ed |-> NoData]
             ELSE fromStructRows(t, AddRow(e, row.vals).ed, items, i + 1)

\* the export without the check of the input's length
FromStruct_emptyTable(t, items) ==
    fromStructRows(t, NewExcelData(getStructHeaders(t)), items, 1)

\* FromStruct: the empty input is refused before headers are derived
FromStruct(t, items) ==
    IF Len(items) = 0 THEN [err |-> "input slice is empty", ed |-> NoData]
    ELSE fromStructRows(t, NewExcelData(getStructHeaders(t)), items, 1)

\* reflect.TypeOf(row[i]), by name
DynamicType(v) ==
    CASE v.kind = "float" -> "float64"
      [] v.kind = "time" -> "time.Time"
      [] v.kind = "nil" -> "<nil>"
      [] OTHER -> v.kind

RECURSIVE rowCells(_, _, _, _, _, _)
\* the row index counted from 0, the header row not counted
rowCells_zeroBased(t, e, rowIndex, item, rowErrors, i) ==
    IF i > Len(e.Headers) THEN [item |-> item, rowErrors |-> rowErrors]
    ELSE LET row == e.Rows[rowIndex]
         IN  IF i > Len(row) THEN rowCells(t, e, rowIndex, item, rowErrors, i + 1)
             ELSE LET r == setNestedField(t, item, e.Headers[i], row[i])
                      ie == [RowIndex |-> rowIndex - 1,
                             Header |-> e.Headers[i],
                             Value |-> row[i],
                             Type |-> DynamicType(row[i]),
                             Err |-> r.err]
                  IN  IF r.err # ""
                      THEN rowCells(t, e, rowIndex, r.v, Append(rowErrors, ie), i + 1)
                      ELSE rowCells(t, e, rowIndex, r.v, rowErrors, i + 1)

\* a header without a cell in the row reported as an error
rowCells_missingCellFails(t, e, rowIndex, item, rowErrors, i) ==
    IF i > Len(e.Headers) THEN [item |-> item, rowErrors |-> rowErrors]
    ELSE LET row == e.Rows[rowIndex]
         IN  IF i > Len(row)
             THEN rowCells(t, e, rowIndex, item,
                           Append(rowErrors, [RowIndex |-> rowIndex + 1,
                                              Header |-> e.Headers[i],
                                              Value |-> NilV,
                                              Type |-> DynamicType(NilV),
                                              Err |-> "missing cell"]),
                           i + 1)
             ELSE LET r == setNestedField(t, item, e.Headers[i], row[i])
                      ie == [RowIndex |-> rowIndex + 1,
                             Header |-> e.Headers[i],
                             Value |-> row[i],
                             Type |-> DynamicType(row[i]),
                             Err |-> r.err]
                  IN  IF r.err # ""
                      THEN rowCells(t, e, rowIndex, r.v, Append(rowErrors, ie), i + 1)
                      ELSE rowCells(t, e, rowIndex, r.v, rowErrors, i + 1)

\* the loop of ToStruct over the headers of one row, from column i on: the item
\* as the cells leave it and the row's errors
rowCells(t, e, rowIndex, item, rowErrors, i) ==
    IF i > Len(e.Headers) THEN [item |-> item, rowErrors |-> rowErrors]
    ELSE LET row == e.Rows[rowIndex]
         IN  IF i > Len(row) THEN rowCells(t, e, rowIndex, item, rowErrors, i + 1)
             ELSE LET r == setNestedField(t, item, e.Headers[i], row[i])
                      ie == [RowIndex |-> rowIndex + 1,
                             Header |-> e.Headers[i],
                             Value |-> row[i],
                             Type |-> DynamicType(row[i]),
                             Err |-> r.err]
                  IN  IF r.err # ""
                      THEN rowCells(t, e, rowIndex, r.v, Append(rowErrors, ie), i + 1)
                      ELSE rowCells(t, e, rowIndex, r.v, rowErrors, i + 1)

RECURSIVE toStructRows(_, _, _, _)
\* the records kept in the reverse of the order of their rows
toStructRows_prepends(t, e, rowIndex, acc) ==
    IF rowIndex > Len(e.Rows) THEN acc
    ELSE LET r == rowCells(t, e, rowIndex, Zero(t), <<>>, 1)
         IN  toStructRows(t, e, rowIndex + 1,
                          [Data |-> IF Len(r.rowErrors) = 0 THEN <<r.item>> \o acc.Data
                                    ELSE acc.Data,
                           Errors |-> acc.Errors \o r.rowErrors])

\* the import given up at the first row that has an error
toStructRows_stopsAtError(t, e, rowIndex, acc) ==
    IF rowIndex > Len(e.Rows) THEN acc
    ELSE LET r == rowCells(t, e, rowIndex, Zero(t), <<>>, 1)
         IN  IF Len(r.rowErrors) > 0
             THEN [Data |-> acc.Data, Errors |-> acc.Errors \o r.rowErrors]
             ELSE toStructRows(t, e, rowIndex + 1,
                               [Data |-> Append(acc.Data, r.item), Errors |-> acc.Errors])

\* one item for all rows: a row starts from the record of the row before it
toStructRows_carriesItem(t, e, rowIndex, acc) ==
    IF rowIndex > Len(e.Rows) THEN acc
    ELSE LET before == IF rowIndex = 1 THEN Zero(t)
                       ELSE rowCells(t, e, rowIndex - 1, Zero(t), <<>>, 1).item
             r == rowCells(t, e, rowIndex, before, <<>>, 1)
         IN  toStructRows(t, e, rowIndex + 1,
                 [Data |-> IF Len(r.rowErrors) = 0 THEN Append(acc.Data, r.item)
                           ELSE acc.Data,
                  Errors |-> acc.Errors \o r.rowErrors])

\* the loop of ToStruct over the rows, from row rowIndex on (rows count from 1
\* here, from 0 in the code: the code's rowIndex + 2 is rowIndex + 1 here)
toStructRows(t, e, rowIndex, acc) ==
    IF rowIndex > Len(e.Rows) THEN acc
    ELSE LET r == rowCells(t, e, rowIndex, Zero(t), <<>>, 1)
         IN  toStructRows(t, e, rowIndex + 1,
                 [Data |-> IF Len(r.rowErrors) = 0 THEN Append(acc.Data, r.item)
                           ELSE acc.Data,
                  Errors |-> acc.Errors \o r.rowErrors])

NoResult == [Data |-> <<>>, Errors |-> <<>>]

ToStruct(t, e) == toStructRows(t, e, 1, NoResult)

-----------------------------------------------------------------------------
(* The sheet file boundary *)

\* the columns 'A' + col names with a letter
LetterColumns == 26

\* the text a cell holds after f.SetCellValue(sheet, cell, value)
CellText(v) ==
    CASE v.kind = "nil" -> <<>>
      [] v.kind = "bool" -> IF v.b THEN <<"TRUE">> ELSE <<"FALSE">>
      [] v.kind = "time" -> <<"date">> \o FormatNat(v.sec)
      [] OTHER -> FormatV(v)

WrittenCells(row) ==
    [c \in 1..(IF Len(row) < LetterColumns THEN Len(row) ELSE LetterColumns) |-> row[c]]

NoFile == [exists |-> FALSE, cells |-> <<>>]

\* ed.ToFile() and f.SaveAs: the header row, then one row per data row
ToFile(e) ==
    [exists |-> TRUE,
     cells |-> <<WrittenCells(e.Headers)>>
               \o [r \in 1..Len(e.Rows) |->
                     [c \in DOMAIN WrittenCells(e.Rows[r]) |-> CellText(e.Rows[r][c])]]]

RECURSIVE TrimRight(_)
TrimRight(row) ==
    IF Len(row) > 0 /\ row[Len(row)] = <<>> THEN TrimRight(SubSeq(row, 1, Len(row) - 1))
    ELSE row

RECURSIVE DropEmptyTail(_)
DropEmptyTail(rows) ==
    IF Len(rows) > 0 /\ rows[Len(rows)] = <<>> THEN DropEmptyTail(SubSeq(rows, 1, Len(rows) - 1))
    ELSE rows

\* f.GetRows("Sheet1"): the text of every cell; the empty cells a row ends with
\* and the empty rows the sheet ends with are not returned
GetRows(f) == DropEmptyTail([r \in 1..Len(f.cells) |-> TrimRight(f.cells[r])])

convertCellValue(value) ==
    IF ParseInt(value).ok THEN IntV(ParseInt(value).n)
    ELSE IF ParseFloat(value).ok THEN FloatV(ParseFloat(value).tenths)
    ELSE IF ParseBool(value).ok THEN BoolV(ParseBool(value).b)
    ELSE StrV(value)

FromExcel(f) ==
    IF ~f.exists THEN [err |-> "no such file or directory", ed |-> NoData]
    ELSE LET rows == GetRows(f)
         IN  IF Len(rows) < 2
             THEN [err |-> "excel file is empty or has no data rows", ed |-> NoData]
             ELSE [err |-> "",
                   ed |-> [live |-> TRUE,
                           Headers |-> rows[1],
                           Rows |-> [r \in 1..(Len(rows) - 1) |->
                                       [c \in 1..Len(rows[r + 1]) |->
                                          convertCellValue(rows[r + 1][c])]]]]

-----------------------------------------------------------------------------
(* Inputs of the operations *)

H(a) == <<a>>
H2(a, b) == <<a, Space, b>>

\* one header and one cell more than the letters A..Z name
WideHeaders == [c \in 1..(LetterColumns + 1) |-> <<"Col">> \o FormatNat(c)]
WideRow == [c \in 1..(LetterColumns + 1) |-> StrV(<<"v">> \o FormatNat(c))]

\* the type parameter and the headers NewExcelData is called with
ManualTables ==
    {[T |-> "person", Headers |-> <<H("Name"), H("Age")>>],
     [T |-> "person", Headers |-> <<H2("Full", "Name"), H("Age")>>],
     [T |-> "*Person", Headers |-> <<H("Name"), H2("Contacts", "Email"), H2("Contacts", "Phone")>>],
     [T |-> "person", Headers |-> <<>>],
     [T |-> "person", Headers |-> <<H("Name"), <<>>>>],
     [T |-> "person", Headers |-> WideHeaders],
     [T |-> "user", Headers |-> <<H("Name"), H("ID")>>],
     [T |-> "UnsupportedPerson", Headers |-> <<H("Name"), H("Data")>>]}

\* the rows AddRow is called with
RowInputs ==
    {<<Word("David"), IntV(30)>>,
     <<Word("Eve"), Word("not_a_number")>>,
     <<Word("John")>>,
     <<Word("Alice"), Word("a@x"), Word("123-4567")>>,
     <<Word("John"), SliceV(<<UintV(1), UintV(2)>>)>>,
     WideRow,
     <<>>}

\* the handlers registered for the domain type: its own, and one written for
\* another type, which fails on every value of this one
ConverterInputs ==
    {<<"customID", "idString">>, <<"customID", "rfc3339">>, <<"customID", "idChecked">>,
     <<"time.Time", "rfc3339">>}
ParserInputs == {<<"customID", "idParse">>, <<"time.Time", "rfc3339">>}

-----------------------------------------------------------------------------
(* The state machine *)

\* func init(): the built-in date/time handlers
Init ==
    /\ TypeConverters = [n \in RegNames |-> IF n = "time.Time" THEN "rfc3339" ELSE "none"]
    /\ TypeParsers = [n \in RegNames |-> IF n = "time.Time" THEN "rfc3339" ELSE "none"]
    /\ T = "person"
    /\ ed = NoData
    /\ data = <<>>
    /\ file = NoFile
    /\ result = NoResult
    /\ op = "init"
    /\ arg = [call |-> "init"]
    /\ err = ""

\* handlers are registered before the first conversion
Setup == op = "init"

\* the container is being built: nothing was saved or imported yet
Building == ed.live /\ ~file.exists /\ op \in {"NewExcelData", "AddRow", "FromStruct"}

\* the first registration for a type kept
RegisterTypeConverter_keepsFirst ==
    /\ Setup
    /\ \E in \in ConverterInputs :
          /\ TypeConverters' = IF TypeConverters[in[1]] = "none"
                                THEN [TypeConverters EXCEPT ![in[1]] = in[2]]
                                ELSE TypeConverters
          /\ arg' = [call |-> "RegisterTypeConverter", t |-> in[1], converter |-> in[2]]
    /\ UNCHANGED <<TypeParsers, T, ed, data, file, result, op, err>>

RegisterTypeConverter ==
    /\ Setup
    /\ \E in \in ConverterInputs :
          /\ TypeConverters' = [TypeConverters EXCEPT ![in[1]] = in[2]]
          /\ arg' = [call |-> "RegisterTypeConverter", t |-> in[1], converter |-> in[2]]
    /\ UNCHANGED <<TypeParsers, T, ed, data, file, result, op, err>>

RegisterTypeParser ==
    /\ Setup
    /\ \E in \in ParserInputs :
          /\ TypeParsers' = [TypeParsers EXCEPT ![in[1]] = in[2]]
          /\ arg' = [call |-> "RegisterTypeParser", t |-> in[1], parser |-> in[2]]
    /\ UNCHANGED <<TypeConverters, T, ed, data, file, result, op, err>>

\* delete(TypeConverters, t); delete(TypeParsers, t)
DeleteHandlers ==
    /\ Setup
    /\ TypeConverters' = [TypeConverters EXCEPT !["customID"] = "none"]
    /\ TypeParsers' = [TypeParsers EXCEPT !["customID"] = "none"]
    /\ arg' = [call |-> "delete"]
    /\ UNCHANGED <<T, ed, data, file, result, op, err>>

DoNewExcelData ==
    /\ Setup
    /\ \E m \in ManualTables :
          /\ T' = m.T
          /\ ed' = NewExcelData(m.Headers)
    /\ data' = <<>>
    /\ op' = "NewExcelData"
    /\ arg' = [call |-> "NewExcelData"]
    /\ err' = ""
    /\ UNCHANGED <<TypeConverters, TypeParsers, file, result>>

DoAddRow ==
    /\ Building
    /\ Len(ed.Rows) < MaxRows
    /\ \E row \in RowInputs :
          LET r == AddRow(ed, row)
          IN  /\ ed' = r.ed
              /\ err' = r.err
              /\ arg' = [call |-> "AddRow", row |-> row]
    /\ op' = "AddRow"
    /\ UNCHANGED <<TypeConverters, TypeParsers, T, data, file, result>>

DoFromStruct ==
    /\ Setup
    /\ \E n \in TypeNames :
          \E items \in SeqsUpTo(Instances(n), MaxRecords) :
             LET r == FromStruct(TypeOf(n), items)
             IN  /\ T' = n
                 /\ data' = items
                 /\ ed' = r.ed
                 /\ err' = r.err
    /\ op' = "FromStruct"
    /\ arg' = [call |-> "FromStruct"]
    /\ UNCHANGED <<TypeConverters, TypeParsers, file, result>>

DoToExcel ==
    /\ Building
    /\ file' = ToFile(ed)
    /\ op' = "ToExcel"
    /\ arg' = [call |-> "ToExcel"]
    /\ err' = ""
    /\ UNCHANGED <<TypeConverters, TypeParsers, T, ed, data, result>>

DoFromExcel ==
    /\ op \in {"ToExcel", "FromStruct"}
    /\ LET r == FromExcel(file)
       IN  /\ ed' = r.ed
           /\ err' = r.err
    /\ op' = "FromExcel"
    /\ arg' = [call |-> "FromExcel"]
    /\ UNCHANGED <<TypeConverters, TypeParsers, T, data, file, result>>

DoToStruct ==
    /\ ed.live
    /\ result' = ToStruct(TypeOf(T), ed)
    /\ op' = "ToStruct"
    /\ arg' = [call |-> "ToStruct"]
    /\ err' = ""
    /\ UNCHANGED <<TypeConverters, TypeParsers, T, ed, data, file>>

Next ==
    \/ RegisterTypeConverter
    \/ RegisterTypeParser
    \/ DeleteHandlers
    \/ DoNewExcelData
    \/ DoAddRow
    \/ DoFromStruct
    \/ DoToExcel
    \/ DoFromExcel
    \/ DoToStruct

Spec == Init /\ [][Next]_vars

-----------------------------------------------------------------------------
(* Notions the properties share *)

TT == TypeOf(T)

\* the container FromStruct makes of the records last exported
Exported == FromStruct(TT, data).ed

\* the live container is that export, untouched
Direct == ed.live /\ data # <<>> /\ ed = Exported

\* the live container is that export, saved with ToExcel and read with FromExcel
ViaFile == ed.live /\ data # <<>> /\ Exported.live /\ ed = FromExcel(ToFile(Exported)).ed

Aligned(rec) == Len(getStructValues(TT, rec).vals) = Len(getStructHeaders(TT))

Flattens(rec) == getStructValues(TT, rec).err = ""

-----------------------------------------------------------------------------
(* C1 - C3: header/value alignment, row lengths, shape errors *)

\* C1: for every exported record the flattener yields as many values as the
\* header deriver yields headers for the record's type
C1_HeaderValueAlignment ==
    \A i \in 1..Len(data) : Flattens(data[i]) => Aligned(data[i])

\* C2: every row of a container made by NewExcelData, AddRow, FromStruct or
\* FromExcel is as long as Headers
C2_RowsMatchHeaders ==
    ed.live => \A r \in 1..Len(ed.Rows) : Len(ed.Rows[r]) = Len(ed.Headers)

\* C3: FromStruct returns an error and no container whenever some record
\* flattens to a number of values that differs from the number of headers
C3_MismatchIsFatal ==
    (op = "FromStruct" /\ \E i \in 1..Len(data) : Flattens(data[i]) /\ ~Aligned(data[i]))
        => (err # "" /\ ~ed.live)

-----------------------------------------------------------------------------
(* C4: ToStruct keeps a row exactly when none of its cells failed *)

Min(a, b) == IF a < b THEN a ELSE b

\* the columns of row r that have a header and a cell
Cells(r) == 1..Min(Len(ed.Headers), Len(ed.Rows[r]))

\* the error of setting the cell at row r, column i
CellErr(r, i) == setNestedField(TT, Zero(TT), ed.Headers[i], ed.Rows[r][i]).err

FailedRows == {r \in 1..Len(ed.Rows) : \E i \in Cells(r) : CellErr(r, i) # ""}

\* the record the cells of row r build
RecordOf(r) == rowCells(TT, ed, r, Zero(TT), <<>>, 1).item

\* C4: after ToStruct the rows without a failed cell, and only they, have their
\* record in Data, every failed cell has its error in Errors, and the rows after
\* a failed row are processed all the same
C4_RowAllOrNothing ==
    op = "ToStruct" =>
        /\ Len(result.Data) + Cardinality(FailedRows) = Len(ed.Rows)
        /\ \A r \in 1..Len(ed.Rows) :
              /\ r \notin FailedRows =>
                    \E k \in 1..Len(result.Data) : result.Data[k] = RecordOf(r)
              /\ \A i \in Cells(r) :
                    CellErr(r, i) # "" =>
                        \E k \in 1..Len(result.Errors) :
                            /\ result.Errors[k].RowIndex = r + 1
                            /\ result.Errors[k].Header = ed.Headers[i]
        /\ \A k \in 1..Len(result.Errors) : result.Errors[k].RowIndex - 1 \in FailedRows

\* a failed row is followed by a row that is kept
C4_Witness ==
    /\ op = "ToStruct"
    /\ \E r \in FailedRows : r + 1 \in (1..Len(ed.Rows)) \ FailedRows
    /\ Len(result.Data) = 1
    /\ Len(result.Errors) = 1

-----------------------------------------------------------------------------
(* C5, C6: collections *)

CollectionTypes == {"*Person", "*ComplexStruct"}

\* the index of the collection field, which is also its first column
CollectionAt == IF T = "*Person" THEN 2 ELSE 3

\* the elements of the record's collection, pointers followed
Elements(rec) ==
    LET es == Deref(rec).fields[CollectionAt].elems
    IN  [j \in 1..Len(es) |-> IF es[j].kind = "ptr" THEN Deref(es[j]) ELSE es[j]]

\* the record is there, and so is every element of its non-empty collection
HasElements(rec) ==
    /\ ~IsNilPtr(rec)
    /\ Len(Deref(rec).fields[CollectionAt].elems) > 0
    /\ \A j \in 1..Len(Deref(rec).fields[CollectionAt].elems) :
          LET e == Deref(rec).fields[CollectionAt].elems[j]
          IN  e.kind = "ptr" => ~IsNilPtr(e)

\* C5: the row exported for a record with a non-empty collection of structs
\* holds, in the collection's columns, the field values of element 0, and no
\* row holds a value of an element at index 1 or higher
C5_FirstElementOnly ==
    (op = "FromStruct" /\ T \in CollectionTypes /\ err = "") =>
        \A i \in 1..Len(data) :
            HasElements(data[i]) =>
                /\ \E k \in 1..Len(ed.Rows) :
                      /\ Len(ed.Rows[k]) = CollectionAt + 1
                      /\ ed.Rows[k][1] \in {Deref(data[i]).fields[1],
                                            getNestedValues(TT.elem.fields[1].type,
                                                            Deref(data[i]).fields[1]).vals[1]}
                      /\ ed.Rows[k][CollectionAt] = Elements(data[i])[1].fields[1]
                      /\ ed.Rows[k][CollectionAt + 1] = Elements(data[i])[1].fields[2]
                /\ \A j \in 2..Len(Elements(data[i])) :
                      \A k \in 1..Len(ed.Rows) : \A c \in 1..Len(ed.Rows[k]) :
                          ed.Rows[k][c] \notin {Elements(data[i])[j].fields[1],
                                                Elements(data[i])[j].fields[2]}

\* a record with two elements was exported
C5_Witness ==
    /\ op = "FromStruct"
    /\ T \in CollectionTypes
    /\ err = ""
    /\ \E i \in 1..Len(data) : HasElements(data[i]) /\ Len(Elements(data[i])) = 2
    /\ Len(ed.Rows) > 0

\* the columns whose header path goes through the collection field Contacts
ContactsColumns(r) ==
    {i \in Cells(r) : Len(Split(ed.Headers[i])) = 2 /\ Split(ed.Headers[i])[1] = <<"Contacts">>}

\* C6: a row imported with several columns through the same collection field
\* gives a record whose collection has exactly one element, which holds the
\* values of all those columns
C6_OneElementPerRow ==
    (op = "ToStruct" /\ T = "*Person" /\ result.Errors = <<>>) =>
        \A r \in 1..Len(result.Data) :
            Cardinality(ContactsColumns(r)) >= 2 =>
                LET contacts == Deref(result.Data[r]).fields[2].elems
                IN  /\ Len(contacts) = 1
                    /\ \A i \in ContactsColumns(r) :
                          contacts[1].fields[FieldIndex(ContactT, Split(ed.Headers[i])[2])]
                              = ed.Rows[r][i]

-----------------------------------------------------------------------------
(* C7 - C10: round trips *)

\* C7: flat records exported and imported again, directly or through a saved
\* sheet, come back without import errors, equal and in order
C7_FlatRoundTrip ==
    (op = "ToStruct" /\ T = "person" /\ (Direct \/ ViaFile)) =>
        /\ result.Errors = <<>>
        /\ result.Data = data

PairRegistered ==
    /\ TypeConverters["customID"] = "idString"
    /\ TypeParsers["customID"] = "idParse"

C9_CustomTypeRoundTrip ==
    (op = "ToStruct" /\ T = "user" /\ Direct /\ PairRegistered) =>
        /\ result.Errors = <<>>
        /\ Len(result.Data) = Len(data)
        /\ \A k \in 1..Len(data) :
              /\ ed.Rows[k][5] = StrV(IDString(data[k].fields[4].n))
              /\ result.Data[k].fields[4] = data[k].fields[4]

\* the identifier 42 went out as text and came back as 42
C9_Witness ==
    /\ op = "ToStruct"
    /\ T = "user"
    /\ Direct
    /\ PairRegistered
    /\ \E k \in 1..Len(result.Data) : result.Data[k].fields[4] = CustomV(42)

\* the pointer fields are set and the collection has elements, all of them set
AllSet(rec) ==
    /\ HasElements(rec)
    /\ ~IsNilPtr(Deref(rec).fields[1])
    /\ ~IsNilPtr(Deref(rec).fields[2])

\* C10: records of non-nil pointer fields, a pointer to a slice of strings and
\* a collection of n >= 1 pointers to structs come back from export and import
\* without import errors, as many as exported, each with its n elements
C10_PointerRoundTrip ==
    (/\ op = "ToStruct"
     /\ T = "*ComplexStruct"
     /\ Direct \/ ViaFile
     /\ \A i \in 1..Len(data) : AllSet(data[i])) =>
        /\ result.Errors = <<>>
        /\ Len(result.Data) = Len(data)
        /\ \A k \in 1..Len(data) : Elements(result.Data[k]) = Elements(data[k])

-----------------------------------------------------------------------------
(* C11, C12: nil pointers and empty collections on export *)

\* the struct type of the records, and a record as a struct
RecordT == IF TT.kind = "ptr" THEN TT.elem ELSE TT
AsStruct(rec) == IF TT.kind = "ptr" THEN Deref(rec) ELSE rec
Present(rec) == TT.kind = "ptr" => ~IsNilPtr(rec)

\* the columns the headers of field j take
ColumnsOf(j) ==
    LET all == Len(fieldHeaders(RecordT, <<>>, 1))
    IN  (all - Len(fieldHeaders(RecordT, <<>>, j)) + 1)
            .. (all - Len(fieldHeaders(RecordT, <<>>, j + 1)))

\* the exported pointer fields of the record that are nil
NilPointerFields(rec) ==
    {j \in 1..Len(RecordT.fields) :
        /\ RecordT.fields[j].exported
        /\ RecordT.fields[j].type.kind = "ptr"
        /\ IsNilPtr(AsStruct(rec).fields[j])}

IsDefault(v) == v.kind = "nil" \/ (v.kind = "string" /\ v.s = <<>>)

\* C11: records with a nil pointer field (and no collection field) are exported
\* without error, each record has its row, and the row holds a default value in
\* every column of the nil field
C11_NilPointerDefaults ==
    (/\ op = "FromStruct"
     /\ T \notin CollectionTypes
     /\ \E i \in 1..Len(data) : NilPointerFields(data[i]) # {}) =>
        /\ err = ""
        /\ ed.live
        /\ Len(ed.Rows) = Len(data)
        /\ \A i \in 1..Len(data) : \A j \in NilPointerFields(data[i]) :
              \A c \in ColumnsOf(j) :
                  c <= Len(ed.Rows[i]) /\ IsDefault(ed.Rows[i][c])

\* the records whose collection field is empty
EmptyCollection(rec) ==
    Present(rec) /\ Len(AsStruct(rec).fields[CollectionAt].elems) = 0

\* C12: for an empty collection field the flattener emits as many values as
\* the header deriver emits headers for the collection's element type
C12_EmptyCollectionPadded ==
    (op = "FromStruct" /\ T \in CollectionTypes) =>
        \A i \in 1..Len(data) :
            EmptyCollection(data[i]) =>
                LET ft == RecordT.fields[CollectionAt].type
                    coll == AsStruct(data[i]).fields[CollectionAt]
                IN  Len(getFirstSliceValue(ft, coll).vals) = Cardinality(ColumnsOf(CollectionAt))

-----------------------------------------------------------------------------
(* C13 - C15: the import errors and the order of the import *)

\* the field of the record type a one-name header leads to, or 0
Destination(h) == IF Len(Split(h)) = 1 THEN FieldIndex(RecordT, Split(h)[1]) ELSE 0

\* C13: an import error for a cell whose header names a scalar field carries
\* that field's type in Type, the header of the column and the raw value
C13_ErrorTypeIsDestination ==
    op = "ToStruct" =>
        \A k \in 1..Len(result.Errors) :
            LET e == result.Errors[k]
                j == Destination(e.Header)
            IN  (j # 0 /\ RecordT.fields[j].type.kind \notin {"ptr", "slice"}) =>
                    /\ e.Type = RecordT.fields[j].type.name
                    /\ \E i \in Cells(e.RowIndex - 1) :
                          ed.Headers[i] = e.Header /\ ed.Rows[e.RowIndex - 1][i] = e.Value

\* the cells of row r that fail
FailedCells(r) == {i \in Cells(r) : CellErr(r, i) # ""}

\* the import errors reported for the cell at row r, column i
ErrorsFor(r, i) ==
    {k \in 1..Len(result.Errors) :
        result.Errors[k].RowIndex = r + 1 /\ result.Errors[k].Header = ed.Headers[i]}

\* C14: every failed cell of data row r (counted from 1 here, from 0 in the
\* code, whence r + 2 there) has exactly one import error, with RowIndex one
\* more than r and the header of its column, and there is no other error
C14_ErrorPerFailedCell ==
    op = "ToStruct" =>
        /\ \A r \in 1..Len(ed.Rows) : \A i \in FailedCells(r) :
              Cardinality(ErrorsFor(r, i)) = 1
        /\ \A k \in 1..Len(result.Errors) :
              \E r \in 1..Len(ed.Rows) : \E i \in FailedCells(r) : k \in ErrorsFor(r, i)

\* the second data row failed in one cell and the first in two
C14_Witness ==
    /\ op = "ToStruct"
    /\ Len(ed.Rows) = 2
    /\ Cardinality(FailedCells(1)) = 2
    /\ Cardinality(FailedCells(2)) = 1
    /\ Len(result.Errors) = 3
    /\ result.Errors[3].RowIndex = 3

\* the rows that are kept, in order
KeptRows == SelectSeq([r \in 1..Len(ed.Rows) |-> r], LAMBDA r : r \notin FailedRows)

\* the column of the k-th import error
ErrorColumn(k) == CHOOSE i \in 1..Len(ed.Headers) : ed.Headers[i] = result.Errors[k].Header

\* C15: Data holds the records of the kept rows in the order of the rows, and
\* Errors is ordered by row and, within a row, by column
C15_OrderPreserved ==
    op = "ToStruct" =>
        /\ result.Data = [k \in 1..Len(KeptRows) |-> RecordOf(KeptRows[k])]
        /\ \A k, l \in 1..Len(result.Errors) :
              k < l =>
                  \/ result.Errors[k].RowIndex < result.Errors[l].RowIndex
                  \/ /\ result.Errors[k].RowIndex = result.Errors[l].RowIndex
                     /\ ErrorColumn(k) < ErrorColumn(l)

\* two different records came back, the first from the first row
C15_Witness ==
    /\ op = "ToStruct"
    /\ Len(result.Data) = 2
    /\ result.Data[1] # result.Data[2]
    /\ result.Data[1] = RecordOf(1)

-----------------------------------------------------------------------------
(* C16, C17: FromStruct as a whole *)

\* the converter registered for customID refuses the record's identifier
ConverterFails(rec) ==
    /\ T = "user"
    /\ TypeConverters["customID"] # "none"
    /\ ~ApplyConverter(TypeConverters["customID"], rec.fields[4]).ok

\* C16: when a registered converter fails on a field of some record, FromStruct
\* returns the conversion error and no container, whatever records came before
C16_ConverterErrorIsFatal ==
    (op = "FromStruct" /\ \E i \in 1..Len(data) : ConverterFails(data[i])) =>
        /\ err = "error converting custom type"
        /\ ed = NoData

\* the converter took the first record and refused the second
C16_Witness ==
    /\ op = "FromStruct"
    /\ Len(data) = 2
    /\ ~ConverterFails(data[1])
    /\ ConverterFails(data[2])
    /\ err # ""

\* C17: a successful FromStruct on n records returns n rows, row k being the
\* flattening of record k
C17_OneRowPerRecord ==
    (op = "FromStruct" /\ err = "") =>
        /\ Len(ed.Rows) = Len(data)
        /\ \A k \in 1..Len(data) : ed.Rows[k] = getStructValues(TT, data[k]).vals

-----------------------------------------------------------------------------
(* C18: AddRow *)

\* C18: AddRow with a row of another length than Headers returns an error and
\* leaves the container as it was; with a row of that length it appends the
\* row as the last one and returns no error
C18_AddRowFrame ==
    [][op' = "AddRow" =>
          IF Len(arg'.row) # Len(ed.Headers)
          THEN err' # "" /\ ed' = ed
          ELSE /\ err' = ""
               /\ ed'.Headers = ed.Headers
               /\ ed'.Rows = Append(ed.Rows, arg'.row)]_vars

\* a row was refused after a row was appended
C18_Witness ==
    /\ op = "AddRow"
    /\ Len(arg.row) # Len(ed.Headers)
    /\ err # ""
    /\ Len(ed.Rows) = 1

-----------------------------------------------------------------------------
(* C19: the registry *)

\* C19: each map holds one entry per type; a registration makes its handler
\* the entry of its type, and leaves the entries of the other types and the
\* other map as they were
C19_LastRegistrationWins ==
    [][/\ DOMAIN TypeConverters' = RegNames /\ DOMAIN TypeParsers' = RegNames
       /\ arg'.call = "RegisterTypeConverter" =>
             /\ TypeConverters'[arg'.t] = arg'.converter
             /\ \A u \in RegNames \ {arg'.t} : TypeConverters'[u] = TypeConverters[u]
             /\ TypeParsers' = TypeParsers
       /\ arg'.call = "RegisterTypeParser" =>
             /\ TypeParsers'[arg'.t] = arg'.parser
             /\ \A u \in RegNames \ {arg'.t} : TypeParsers'[u] = TypeParsers[u]
             /\ TypeConverters' = TypeConverters]_vars

\* a handler was registered for date/time with the handlers of customID in
\* place
C19_Witness ==
    /\ arg.call = "RegisterTypeConverter"
    /\ arg.t = "time.Time"
    /\ TypeConverters["customID"] = "idChecked"
    /\ TypeParsers["customID"] = "idParse"
    /\ TypeConverters["time.Time"] = "rfc3339"

-----------------------------------------------------------------------------
(* C20: the headers of a record type *)

Unpointed(t) == IF t.kind = "ptr" THEN t.elem ELSE t

\* a type whose fields get headers of their own
Walked(t) == t.kind = "struct" /\ ~IsTime(t) /\ ~HasConverter(t)

\* the headers the claim gives an exported field: its name for a leaf, the
\* headers of the nested or element type after "<name> " otherwise
HeadersOfField(f) ==
    LET ft == Unpointed(f.type)
        inner == IF ft.kind = "slice" THEN Unpointed(ft.elem) ELSE ft
        sub == getNestedHeaders(inner, <<>>)
    IN  IF ~f.exported THEN <<>>
        ELSE IF Walked(inner) THEN [k \in 1..Len(sub) |-> <<f.name, Space>> \o sub[k]]
        ELSE <<<<f.name>>>>

RECURSIVE HeadersOfFields(_, _)
HeadersOfFields(fs, i) ==
    IF i > Len(fs) THEN <<>> ELSE HeadersOfField(fs[i]) \o HeadersOfFields(fs, i + 1)

\* the struct types the record types hold, themselves included
StructTypes ==
    {Unpointed(TypeOf(n)) : n \in TypeNames} \cup {addressT, AddressT, ContactT, ContactInfosT}

\* C20: the headers of a record type are, field by field in declaration order,
\* the headers of its exported fields, and an unexported field has none
C20_HeadersPerLeaf ==
    /\ \A t \in StructTypes :
          /\ getStructHeaders(t) = HeadersOfFields(t.fields, 1)
          /\ getStructHeaders(PtrTo(t)) = getStructHeaders(t)
    /\ getStructHeaders(ContactInfosT)[4] = <<"ContactInfos", Space, "Address", Space, "Street">>

\* the headers of the user records were derived with a converter registered
\* for the custom type: five of them, none for the unexported field
C20_Witness ==
    /\ op = "FromStruct"
    /\ T = "user"
    /\ TypeConverters["customID"] = "idString"
    /\ ed.live
    /\ ed.Headers = <<H("Name"), H2("Address", "Street"), H2("Address", "City"),
                      H("BirthDate"), H("ID")>>

-----------------------------------------------------------------------------
(* C21: date/time fields on export *)

\* the column of the date/time field of the record types that have one
TimeColumn == IF T = "user" THEN 4 ELSE 2

\* the date/time of the record, or the nil pointer
TimeOf(rec) == IF T = "user" THEN rec.fields[3] ELSE rec.fields[2]

\* C21: with the built-in converter registered for date/time, the row of a
\* record holds the RFC 3339 text of its date/time field, be the field a
\* value or a non-nil pointer
C21_TimeAsRFC3339 ==
    (/\ op = "FromStruct"
     /\ T \in {"user", "BirthDate"}
     /\ data # <<>>
     /\ TypeConverters["time.Time"] = "rfc3339"
     /\ TypeConverters["customID"] \in {"none", "idString"}) =>
        /\ err = ""
        /\ Len(ed.Rows) = Len(data)
        /\ \A k \in 1..Len(data) :
              LET t == TimeOf(data[k])
              IN  CASE t.kind = "time" ->
                          ed.Rows[k][TimeColumn] = StrV(FormatRFC3339(t))
                    [] IsNilPtr(t) -> TRUE
                    [] OTHER -> ed.Rows[k][TimeColumn] = StrV(FormatRFC3339(Deref(t)))

\* a record with a pointer to a date/time was exported, and a record without
C21_Witness ==
    /\ op = "FromStruct"
    /\ T = "BirthDate"
    /\ Len(data) = 2
    /\ ~IsNilPtr(data[1].fields[2])
    /\ IsNilPtr(data[2].fields[2])
    /\ Len(ed.Rows) = 2
    /\ ed.Rows[1][2] = StrV(<<"T", "9", "0", "Z">>)

-----------------------------------------------------------------------------
(* C22: a string field takes textual raw values only *)

\* the field of the record type that the one-segment header of column i names,
\* when it is an exported field of kind string
StringColumn(i) ==
    LET j == Destination(ed.Headers[i])
    IN  /\ j # 0
        /\ RecordT.fields[j].exported
        /\ RecordT.fields[j].type.kind = "string"
        /\ \/ RecordT.fields[j].type.name \notin DOMAIN TypeParsers
           \/ TypeParsers[RecordT.fields[j].type.name] = "none"

\* the rows ToStruct reported an error for, and the place in Data of a row
\* it reported none for
ReportedRows == {r \in 1..Len(ed.Rows) : \E k \in 1..Len(result.Errors) : result.Errors[k].RowIndex = r + 1}
PlaceInData(r) == Cardinality({q \in 1..r : q \notin ReportedRows})

\* column i is the last one of its header in the row
LastOfHeader(r, i) == \A c \in Cells(r) : ed.Headers[c] = ed.Headers[i] => c <= i

\* C22: after ToStruct, a cell of a string field without a parser that does not
\* hold a string has an import error "value is not a string" carrying the cell,
\* and its row is not in Data; a cell that holds a string has no error and, when
\* its row is kept, the field of the record is that string unchanged
C22_StringFieldIsStrict ==
    op = "ToStruct" =>
        /\ Len(result.Data) + Cardinality(ReportedRows) = Len(ed.Rows)
        /\ \A r \in 1..Len(ed.Rows) : \A i \in Cells(r) :
              StringColumn(i) =>
                 IF ed.Rows[r][i].kind # "string"
                 THEN /\ r \in ReportedRows
                      /\ \E k \in ErrorsFor(r, i) :
                            /\ result.Errors[k].Value = ed.Rows[r][i]
                            /\ result.Errors[k].Err = "value is not a string"
                 ELSE /\ \A k \in ErrorsFor(r, i) : result.Errors[k].Value # ed.Rows[r][i]
                      /\ (r \notin ReportedRows /\ LastOfHeader(r, i)) =>
                            AsStruct(result.Data[PlaceInData(r)])
                                .fields[Destination(ed.Headers[i])] = ed.Rows[r][i]

C22_Witness ==
    /\ op = "ToStruct"
    /\ Len(ed.Rows) = 2
    /\ Len(ed.Headers) > 0 /\ Len(ed.Rows[1]) > 0 /\ Len(ed.Rows[2]) > 0
    /\ StringColumn(1)
    /\ ed.Rows[1][1].kind = "int"
    /\ ed.Rows[2][1].kind = "string"
    /\ Len(result.Data) = 1
    /\ AsStruct(result.Data[1]).fields[Destination(ed.Headers[1])] = ed.Rows[2][1]
    /\ \E k \in 1..Len(result.Errors) : result.Errors[k].Err = "value is not a string"

-----------------------------------------------------------------------------
(* C23: the cells ToFile writes *)

\* C23: after ToExcel the sheet holds every header in row 1 and every value of
\* data row r in the sheet row after it, each in the column of its index
C23_EveryColumnWritten ==
    op = "ToExcel" =>
        /\ Len(file.cells) = 1 + Len(ed.Rows)
        /\ Len(file.cells[1]) = Len(ed.Headers)
        /\ \A c \in 1..Len(ed.Headers) : file.cells[1][c] = ed.Headers[c]
        /\ \A r \in 1..Len(ed.Rows) :
              /\ Len(file.cells[r + 1]) = Len(ed.Rows[r])
              /\ \A c \in 1..Len(ed.Rows[r]) : file.cells[r + 1][c] = CellText(ed.Rows[r][c])

-----------------------------------------------------------------------------
(* C24: the empty input *)

\* C24: FromStruct of an empty collection, whatever the record type and the
\* registry, returns the error "input slice is empty" and no container
C24_EmptyInputRejected ==
    (op = "FromStruct" /\ data = <<>>) =>
        /\ err = "input slice is empty"
        /\ ed = NoData

C24_Witness ==
    /\ op = "FromStruct"
    /\ data = <<>>
    /\ T = "user"
    /\ TypeConverters["customID"] = "rfc3339"
    /\ err = "input slice is empty"
    /\ ~ed.live

-----------------------------------------------------------------------------
(* C25: a failed field setting and the record *)

\* the record of row r as the cells before column i leave it
ItemBefore(r, i) ==
    rowCells(TT, [ed EXCEPT !.Headers = SubSeq(@, 1, i - 1)], r, Zero(TT), <<>>, 1).item

\* C25: a cell whose setting fails leaves the record as the cells before it
\* left it
C25_FailureLeavesRecord ==
    op = "ToStruct" =>
        \A r \in 1..Len(ed.Rows) : \A i \in Cells(r) :
            LET res == setNestedField(TT, ItemBefore(r, i), ed.Headers[i], ed.Rows[r][i])
            IN  res.err # "" => res.v = ItemBefore(r, i)

-----------------------------------------------------------------------------
(* C26: fields of a kind that cannot be set *)

\* the one-segment header of column i names an exported field whose kind,
\* behind its pointers, is none of string, integer, unsigned, float, boolean
\* or date/time and whose type has no parser
UnsupportedColumn(i) ==
    LET j == Destination(ed.Headers[i])
    IN  /\ j # 0
        /\ RecordT.fields[j].exported
        /\ LET ft == Unpointed(RecordT.fields[j].type)
           IN  /\ ft.kind \notin {"string", "int", "uint", "float", "bool"}
               /\ ~IsTime(ft)
               /\ ft.kind = "slice" \/ ft.name \notin DOMAIN TypeParsers
                                    \/ TypeParsers[ft.name] = "none"

\* C26: after ToStruct every cell of such a field has an import error that
\* says the type is unsupported, and its row is not in Data
C26_UnsupportedTypeFails ==
    op = "ToStruct" =>
        \A r \in 1..Len(ed.Rows) : \A i \in Cells(r) :
            UnsupportedColumn(i) =>
                /\ r \in ReportedRows
                /\ \E k \in ErrorsFor(r, i) :
                      result.Errors[k].Err \in {"unsupported type", "unsupported struct type"}

-----------------------------------------------------------------------------
(* C27: the parser registered at the time of the call decides *)

\* the columns of the custom type's field
IDColumns(r) == {i \in Cells(r) : ed.Headers[i] = H("ID")}

\* the custom type's field of the record kept for row r
KeptID(r) == AsStruct(result.Data[PlaceInData(r)]).fields[FieldIndex(RecordT, H("ID"))]

\* C27: after ToStruct on records of the type with the custom field, a cell of
\* that field has the outcome of the parser registered for the custom type on
\* the cell's text: the parser's failure as an import error, or the parsed value
\* in the field; with no parser registered it has the outcome of reading the
\* cell's text as an integer
C27_RegisteredParserDecides ==
    (op = "ToStruct" /\ T = "user") =>
        \A r \in 1..Len(ed.Rows) : \A i \in IDColumns(r) :
            LET text == FormatV(ed.Rows[r][i])
                registered == TypeParsers["customID"] # "none"
                p == IF registered THEN ApplyParser(TypeParsers["customID"], text)
                     ELSE [ok |-> ParseInt(text).ok, v |-> CustomV(ParseInt(text).n)]
                failure == IF registered THEN "error parsing custom type" ELSE "strconv.ParseInt"
            IN  IF p.ok
                THEN /\ ErrorsFor(r, i) = {}
                     /\ r \notin ReportedRows => KeptID(r) = p.v
                ELSE /\ r \in ReportedRows
                     /\ \A k \in ErrorsFor(r, i) : result.Errors[k].Err = failure
                     /\ ErrorsFor(r, i) # {}

\* the parser refuses the text "30", which reads as an integer
C27_Witness ==
    /\ op = "ToStruct"
    /\ T = "user"
    /\ TypeParsers["customID"] = "idParse"
    /\ Len(ed.Rows) = 1
    /\ IDColumns(1) = {2}
    /\ ed.Rows[1][2] = IntV(30)
    /\ ParseInt(FormatV(ed.Rows[1][2])).ok
    /\ result.Data = <<>>
    /\ \E k \in ErrorsFor(1, 2) : result.Errors[k].Err = "error parsing custom type"

-----------------------------------------------------------------------------
(* C28: rows shorter and longer than the headers *)

\* the container with the cells beyond the last header cut off
WithoutExtraCells ==
    [ed EXCEPT !.Rows = [r \in DOMAIN @ |-> SubSeq(@[r], 1, Min(Len(@[r]), Len(ed.Headers)))]]

\* the columns of row r that have a header and no cell
MissingColumns(r) == (Len(ed.Rows[r]) + 1)..Len(ed.Headers)

\* the first path segment of the header of column i
FirstSegment(i) == Split(ed.Headers[i])[1]

\* C28: after ToStruct every import error is for a cell the row has, the field
\* of a column the row has no cell for (and that no cell of the row goes into)
\* is zero in the kept record, and the cells beyond the last header change
\* nothing
C28_OnlyCellsPresent ==
    op = "ToStruct" =>
        /\ \A k \in 1..Len(result.Errors) :
              \E r \in 1..Len(ed.Rows) : \E i \in Cells(r) :
                  /\ result.Errors[k].RowIndex = r + 1
                  /\ result.Errors[k].Header = ed.Headers[i]
                  /\ result.Errors[k].Value = ed.Rows[r][i]
        /\ \A r \in 1..Len(ed.Rows) : \A i \in MissingColumns(r) :
              LET j == FieldIndex(RecordT, FirstSegment(i))
              IN  (/\ r \notin ReportedRows
                   /\ j # 0
                   /\ \A c \in Cells(r) : FirstSegment(c) # FirstSegment(i)) =>
                      AsStruct(result.Data[PlaceInData(r)]).fields[j]
                          = Zero(RecordT.fields[j].type)
        /\ result = ToStruct(TT, WithoutExtraCells)

\* a row read from the file without its empty last cell
C28_Witness ==
    /\ op = "ToStruct"
    /\ T = "BirthDate"
    /\ Len(ed.Headers) = 2
    /\ Len(ed.Rows) = 1
    /\ Len(ed.Rows[1]) = 1
    /\ result.Errors = <<>>
    /\ Len(result.Data) = 1
    /\ IsNilPtr(result.Data[1].fields[2])

-----------------------------------------------------------------------------
(* C29: a column that names no field *)

\* the first path segment of the header of column i is no field's name
UnknownColumn(i) ==
    \A j \in 1..Len(RecordT.fields) : <<RecordT.fields[j].name>> # FirstSegment(i)

\* C29: after ToStruct every cell of a column whose header names no field of
\* the record type has an import error "no such field", and no row with such a
\* cell has a record in Data
C29_UnknownColumnFails ==
    op = "ToStruct" =>
        /\ Len(result.Data) + Cardinality(ReportedRows) = Len(ed.Rows)
        /\ \A r \in 1..Len(ed.Rows) : \A i \in Cells(r) :
              UnknownColumn(i) =>
                  /\ r \in ReportedRows
                  /\ \E k \in ErrorsFor(r, i) :
                        /\ result.Errors[k].Err = "no such field"
                        /\ result.Errors[k].Value = ed.Rows[r][i]

C29_Witness ==
    /\ op = "ToStruct"
    /\ T = "person"
    /\ ed.Headers = <<H2("Full", "Name"), H("Age")>>
    /\ Len(ed.Rows) = 2
    /\ result.Data = <<>>
    /\ \E k \in ErrorsFor(1, 1) : result.Errors[k].Err = "no such field"
    /\ \E k \in ErrorsFor(2, 1) : result.Errors[k].Err = "no such field"

-----------------------------------------------------------------------------
(* C30: rows are reconstructed independently *)

\* the container of the headers of e and its row r alone
OnlyRow(e, r) == [e EXCEPT !.Rows = <<e.Rows[r]>>]

\* the import errors es, counted from row r instead of row 1
AtRow(es, r) == [k \in 1..Len(es) |-> [es[k] EXCEPT !.RowIndex = @ + r - 1]]

RECURSIVE RowByRow(_, _)
\* the results of ToStruct on each row alone, from row r on, put together
RowByRow(e, r) ==
    IF r > Len(e.Rows) THEN NoResult
    ELSE LET one == ToStruct(TT, OnlyRow(e, r))
             rest == RowByRow(e, r + 1)
         IN  [Data |-> one.Data \o rest.Data,
              Errors |-> AtRow(one.Errors, r) \o rest.Errors]

\* C30: a step of ToStruct leaves the container and the registry as they were,
\* and its result is, row by row, what ToStruct makes of the headers and that
\* row alone: the record and the errors of a row do not depend on another row
C30_RowsIndependent ==
    [][op' = "ToStruct" =>
          /\ ed' = ed
          /\ TypeParsers' = TypeParsers /\ TypeConverters' = TypeConverters
          /\ result' = RowByRow(ed, 1)]_vars

\* two different rows, each with a record and a collection of its own
C30_Witness ==
    /\ op = "ToStruct"
    /\ T = "*Person"
    /\ Len(ed.Rows) = 2
    /\ Len(result.Data) = 2
    /\ ed.Rows[1] # ed.Rows[2]
    /\ Deref(result.Data[1]) # Deref(result.Data[2])
    /\ Len(Deref(result.Data[2]).fields[2].elems) = Len(Deref(result.Data[1]).fields[2].elems)

====
